---- MODULE Spec2Model ----
(***************************************************************************)
(* The German Credit Risk API of src/main.py: the model handle loaded at   *)
(* import time, the CODE_BOOK, and the two endpoints GET / (get_mappings)  *)
(* and POST /predict (predict_risk), served by a pool of worker threads.   *)
(*                                                                         *)
(* Floating point is IEEE-754 binary64, as CPython's float and numpy's     *)
(* float64 are: a finite double is a record [sign, exp, man] of value      *)
(* (-1)^sign * man * 2^(exp - 52), with man = 0 (a zero) or                 *)
(* 2^52 <= man < 2^53.  A mantissa, and the wider integers met while       *)
(* dividing and rounding, are three limbs <<l0, l1, l2>> of 27 bits, least *)
(* significant first, so that no intermediate exceeds 31 bits.  NaN, the   *)
(* infinities and the subnormals are outside the model.                    *)
(***************************************************************************)
EXTENDS Integers, Sequences, FiniteSets, TLC

----------------------------------------------------------------------------
(* Natural numbers below 2^81 in three 27-bit limbs. *)

W == 2^27

N3Zero == <<0, 0, 0>>
N3One == <<1, 0, 0>>

\* a * k, for 0 <= k <= 16
N3Mul(a, k) ==
  LET d0 == k * a[1]
      d1 == k * a[2] + (d0 \div W)
      d2 == k * a[3] + (d1 \div W)
  IN  <<d0 % W, d1 % W, d2>>

N3Lt(a, b) ==
  \/ a[3] < b[3]
  \/ a[3] = b[3] /\ a[2] < b[2]
  \/ a[3] = b[3] /\ a[2] = b[2] /\ a[1] < b[1]

N3Geq(a, b) == ~N3Lt(a, b)

\* a - b, for a >= b
N3Sub(a, b) ==
  LET b0 == IF a[1] < b[1] THEN 1 ELSE 0
      d0 == a[1] - b[1] + b0 * W
      b1 == IF a[2] - b0 < b[2] THEN 1 ELSE 0
      d1 == a[2] - b0 - b[2] + b1 * W
  IN  <<d0, d1, a[3] - b1 - b[3]>>

\* a + k, for 0 <= k < W
N3Add(a, k) ==
  LET d0 == a[1] + k
      d1 == a[2] + (d0 \div W)
  IN  <<d0 % W, d1 % W, a[3] + (d1 \div W)>>

N3Odd(a) == a[1] % 2 = 1

\* floor(a / 2^s)
N3Shr(a, s) ==
  LET l == IF s < 27 THEN a
           ELSE IF s < 54 THEN <<a[2], a[3], 0>>
           ELSE IF s < 81 THEN <<a[3], 0, 0>>
           ELSE N3Zero
      p == 2^(s % 27)
  IN  << (l[1] \div p) + (l[2] % p) * (W \div p),
         (l[2] \div p) + (l[3] % p) * (W \div p),
         l[3] \div p >>

\* a mod 2^s
N3Low(a, s) ==
  LET p == 2^(s % 27)
  IN  IF s < 27 THEN <<a[1] % p, 0, 0>>
      ELSE IF s < 54 THEN <<a[1], a[2] % p, 0>>
      ELSE IF s < 81 THEN <<a[1], a[2], a[3] % p>>
      ELSE a

TwoTo52 == <<0, 2^25, 0>>
TwoTo53 == <<0, 2^26, 0>>

\* Long division in base 16: the quotient and remainder after n more digits of
\* r / d, for r < d.
RECURSIVE DivDigits(_, _, _, _)
DivDigits(r, q, d, n) ==
  IF n = 0 THEN <<q, r>>
  ELSE LET r16 == N3Mul(r, 16)
           j   == CHOOSE i \in 0..15 :
                    N3Geq(r16, N3Mul(d, i)) /\ N3Lt(r16, N3Mul(d, i + 1))
           q16 == N3Add(N3Mul(q, 16), j)
       IN  IF q16[1] >= 0
           THEN DivDigits(N3Sub(r16, N3Mul(d, j)), q16, d, n - 1)
           ELSE <<q16, r16>>

\* n / 2^s rounded to the nearest integer, ties to even.
RoundShift(n, s) ==
  LET q      == N3Shr(n, s)
      rnd    == s > 0 /\ N3Odd(N3Shr(n, s - 1))
      sticky == s > 1 /\ N3Low(n, s - 1) # N3Zero
  IN  IF rnd /\ (sticky \/ N3Odd(q)) THEN N3Add(q, 1) ELSE q

----------------------------------------------------------------------------
(* IEEE-754 binary64 *)

IsZero(x) == x.man = N3Zero

MagLt(x, y) ==
  IF IsZero(y) THEN FALSE
  ELSE IF IsZero(x) THEN TRUE
  ELSE x.exp < y.exp \/ (x.exp = y.exp /\ N3Lt(x.man, y.man))

\* x < y
FLt(x, y) ==
  IF IsZero(x) /\ IsZero(y) THEN FALSE
  ELSE IF x.sign # y.sign THEN x.sign = 1
  ELSE IF x.sign = 0 THEN MagLt(x, y)
  ELSE MagLt(y, x)

\* x > y
FGt(x, y) == FLt(y, x)

\* x == y (the two zeros are equal)
FEq(x, y) == ~FLt(x, y) /\ ~FLt(y, x)

\* x - y for y = 0.0, the only subtrahend of the program: exact, and x itself.
FSubZero(x, y) == x

\* x / y, correctly rounded (ties to even), for y a positive normal double.
FDiv(x, y) ==
  IF IsZero(x) THEN x
  ELSE
    LET big   == N3Geq(x.man, y.man)
        n0    == IF big THEN x.man ELSE N3Mul(x.man, 2)
        e0    == x.exp - y.exp - (IF big THEN 0 ELSE 1)
        qr    == DivDigits(N3Sub(n0, y.man), N3One, y.man, 13)
        q     == qr[1]
        r2    == N3Mul(qr[2], 2)
        up    == N3Lt(y.man, r2) \/ (r2 = y.man /\ N3Odd(q))
        q1    == IF up THEN N3Add(q, 1) ELSE q
        carry == q1 = TwoTo53
    IN  [sign |-> (x.sign + y.sign) % 2,
         exp  |-> IF carry THEN e0 + 1 ELSE e0,
         man  |-> IF carry THEN TwoTo52 ELSE q1]

\* man * 10^n
RECURSIVE MulPow10(_, _)
MulPow10(a, n) == IF n = 0 THEN a ELSE MulPow10(N3Mul(a, 10), n - 1)

\* How many halvings bring n below 2^53.
BitsOver53(n) ==
  CHOOSE t \in 0..28 :
    /\ N3Lt(N3Shr(n, t), TwoTo53)
    /\ t > 0 => N3Geq(N3Shr(n, t - 1), TwoTo53)

\* CPython's float.__round__(x, nd) for a double 0 <= x <= 1: the exact value of
\* x * 10^nd rounded half to even to an integer k; the result is the double
\* nearest k / 10^nd, which a JSON body prints as that decimal.  The value here
\* is k, the result in units of 10^-nd.
PyRound(x, nd) ==
  IF IsZero(x) THEN 0
  ELSE RoundShift(MulPow10(x.man, nd), 52 - x.exp)[1]

\* numpy's float64.__round__(x, nd) for 0 <= x <= 1: rint(x * 10^nd) / 10^nd, the
\* product rounded to a double before rint rounds it to an integer k; the
\* quotient is again the double nearest k / 10^nd.  The value here is k.
NpRound(x, nd) ==
  IF IsZero(x) THEN 0
  ELSE LET n == MulPow10(x.man, nd)
           t == BitsOver53(n)
           m == RoundShift(n, t)
       IN  RoundShift(m, (52 - x.exp) - t)[1]

----------------------------------------------------------------------------
(* Python scalars: a value and its type, float or numpy.float64. *)

PyFloat(d) == [scalar |-> "float", val |-> d]

\* a - b and a / b: numpy.float64 if either operand is
Sub(a, b) ==
  [scalar |-> IF "float64" \in {a.scalar, b.scalar} THEN "float64" ELSE "float",
   val    |-> FSubZero(a.val, b.val)]

Div(a, b) ==
  [scalar |-> IF "float64" \in {a.scalar, b.scalar} THEN "float64" ELSE "float",
   val    |-> FDiv(a.val, b.val)]

\* the builtins min(a, b) and max(a, b): the first argument unless the second
\* is strictly smaller (larger)
PyMin(a, b) == IF FLt(b.val, a.val) THEN b ELSE a
PyMax(a, b) == IF FGt(b.val, a.val) THEN b ELSE a

\* the builtin round(x, nd), dispatched on the type of x
Round(x, nd) ==
  IF x.scalar = "float64" THEN NpRound(x.val, nd) ELSE PyRound(x.val, nd)

----------------------------------------------------------------------------
(* src/main.py: the constants *)

\* the literals 0.0, 0.7, 1.0 and 0.5 as doubles
D_0_0 == [sign |-> 0, exp |-> 0, man |-> <<0, 0, 0>>]
D_0_7 == [sign |-> 0, exp |-> -1, man |-> <<107374182, 46976204, 0>>]
D_1_0 == [sign |-> 0, exp |-> 0, man |-> <<0, 33554432, 0>>]
D_0_5 == [sign |-> 0, exp |-> -1, man |-> <<0, 33554432, 0>>]

\* round(calibrated_score, 4)
RoundDigits == 4

CODE_BOOK ==
  [job |->
     (0 :> "High Qualification / Management" @@
      1 :> "Skilled Employee" @@
      2 :> "Unemployed / Unskilled (Non-resident)" @@
      3 :> "Unskilled (Resident)"),
   checking_status |->
     (0 :> "0 <= X < 200 DM (Medium Risk)" @@
      1 :> "< 0 DM (Overdrawn / High Risk)" @@
      2 :> ">= 200 DM (Low Risk)" @@
      3 :> "No Checking Account (Safe)"),
   purpose |->
     (0 :> "Business" @@ 1 :> "Domestic Appliances" @@ 2 :> "Education" @@
      3 :> "Furniture/Equipment" @@ 4 :> "New Car" @@ 5 :> "Used Car" @@
      6 :> "Radio/TV" @@ 7 :> "Repairs" @@ 8 :> "Retraining")]

\* dict.get(key, default)
DictGet(d, key, default) == IF key \in DOMAIN d THEN d[key] ELSE default

----------------------------------------------------------------------------
(* The request body and its validation against LoanApplication, which      *)
(* FastAPI runs before it calls predict_risk.                              *)

Fields ==
  {"duration", "credit_amount", "age", "job",
   "checking_status", "savings_status", "purpose"}

\* What a JSON body holds for a field: nothing, null, a string that spells no
\* number, a string that spells the integer v, or the integer v.  (A number
\* with a fraction is left out: whether an integer field takes it depends on
\* the pydantic version.)
Missing == [t |-> "missing", v |-> 0]
JNull == [t |-> "null", v |-> 0]
JStr == [t |-> "string", v |-> 0]
JNumStr(n) == [t |-> "numstr", v |-> n]
JNum(n) == [t |-> "number", v |-> n]

\* The error pydantic reports for field f holding x, "ok" if none: a number,
\* and a string that spells one, are coerced to the field's type.
FieldError(f, x) ==
  IF x.t = "missing" THEN "missing"
  ELSE IF x.t \in {"number", "numstr"} THEN "ok"
  ELSE "type_error"

\* Variant of ValidationErrors that stops at the first offending field.
ValidationErrorsFirst(payload) ==
  LET all == { [loc |-> f, type |-> FieldError(f, payload[f])] :
                 f \in {g \in Fields : FieldError(g, payload[g]) # "ok"} }
  IN  IF all = {} THEN {} ELSE {CHOOSE e \in all : TRUE}

\* The detail of the 422 response: one entry per offending field.
ValidationErrors(payload) ==
  { [loc |-> f, type |-> FieldError(f, payload[f])] :
      f \in {g \in Fields : FieldError(g, payload[g]) # "ok"} }

\* The LoanApplication built from a payload without errors.
LoanApplication(payload) == [f \in Fields |-> payload[f].v]

----------------------------------------------------------------------------
(* The classifier: joblib.load's result, opaque to the service.  A         *)
(* classifier is a fixed function from the feature vector to what          *)
(* predict_proba(input_df)[0][1] does: it returns a double, of the scalar   *)
(* type of the classifier's arrays, or raises.  The family below indexes   *)
(* the first n entries of RawOutcomes by a linear function of the features.*)

Raises == [kind |-> "raise", val |-> D_0_0]
Proba(d) == [kind |-> "proba", val |-> d]

RawOutcomes ==
  << Proba([sign |-> 0, exp |-> -3, man |-> <<102005473, 56371445, 0>>]),  \* 0.21
     Proba([sign |-> 0, exp |-> -1, man |-> <<53687091, 40265318, 0>>]),   \* 0.6
     Raises,
     Proba([sign |-> 0, exp |-> -2, man |-> <<107374182, 46976204, 0>>]),  \* 0.35
     Proba([sign |-> 0, exp |-> -2, man |-> <<107374183, 46976204, 0>>]),  \* 0.35000000000000003
     Proba([sign |-> 0, exp |-> -2, man |-> <<107374181, 46976204, 0>>]),  \* 0.3499999999999999
     Proba([sign |-> 0, exp |-> -1, man |-> <<107374182, 46976204, 0>>]),  \* 0.7
     Proba([sign |-> 0, exp |-> -1, man |-> <<107374183, 46976204, 0>>]),  \* 0.7000000000000001
     Proba([sign |-> 0, exp |-> -1, man |-> <<107374181, 46976204, 0>>]),  \* 0.6999999999999998
     Proba([sign |-> 0, exp |-> 0, man |-> <<0, 0, 0>>]),                  \* 0.0
     Proba([sign |-> 1, exp |-> 0, man |-> <<0, 0, 0>>]),                  \* -0.0
     Proba([sign |-> 1, exp |-> -4, man |-> <<26843546, 53687091, 0>>]),   \* -0.1
     Proba([sign |-> 0, exp |-> -1, man |-> <<80530637, 60397977, 0>>]),   \* 0.9
     Proba([sign |-> 0, exp |-> 0, man |-> <<0, 33554432, 0>>]),           \* 1.0
     Proba([sign |-> 0, exp |-> -4, man |-> <<26843546, 53687091, 0>>]),   \* 0.1
     Proba([sign |-> 0, exp |-> -20, man |-> <<11922829, 35184372, 0>>]),  \* 1e-06
     Proba([sign |-> 0, exp |-> -13, man |-> <<95992519, 48103633, 0>>]),  \* 0.000175
     Proba([sign |-> 0, exp |-> -2, man |-> <<24094767, 46971507, 0>>]),   \* 0.349965
     Proba([sign |-> 0, exp |-> -2, man |-> <<56435870, 46980902, 0>>]),   \* 0.350035
     Proba([sign |-> 0, exp |-> -2, man |-> <<68332930, 46981573, 0>>]) >> \* 0.35004

None == [kind |-> "None", scalar |-> "", a |-> 0, b |-> 0, n |-> 0]
Classifier(scalar, a, b, n) ==
  [kind |-> "classifier", scalar |-> scalar, a |-> a, b |-> b, n |-> n]

\* The classifiers whose outcomes are the first n of RawOutcomes.
Classifiers(n) ==
  { Classifier(sc, a, b, n) : sc \in {"float", "float64"}, a \in 0..(n - 1), b \in 0..(n - 1) }

FeatureSum(df) ==
  df["duration"] + df["credit_amount"] + df["age"] + df["job"]
    + df["checking_status"] + df["savings_status"] + df["purpose"]

\* model.predict_proba(input_df)[0][1]
PredictProba(m, df) == RawOutcomes[((m.a * FeatureSum(df) + m.b) % m.n) + 1]

\* What credit_risk_model.pkl may be at startup: not there, not a pickle
\* joblib can load, or a classifier.
Absent == [kind |-> "absent", scalar |-> "", a |-> 0, b |-> 0, n |-> 0]
Corrupt == [kind |-> "corrupt", scalar |-> "", a |-> 0, b |-> 0, n |-> 0]

\* try: model = joblib.load(...)  except: model = None
JoblibLoad(file) == IF file.kind = "classifier" THEN file ELSE None

----------------------------------------------------------------------------
(* predict_risk *)

\* Variant of Calibrate without the clipping of line 80.
CalibrateUnclipped(raw_probability) ==
  Div(Sub(raw_probability, PyFloat(D_0_0)), Sub(PyFloat(D_0_7), PyFloat(D_0_0)))

\* Variant of Calibrate that scales the negated raw probability.
CalibrateNegated(raw_probability) ==
  LET negated == [raw_probability EXCEPT !.val.sign = 1 - @]
      calibrated_score ==
        Div(Sub(negated, PyFloat(D_0_0)), Sub(PyFloat(D_0_7), PyFloat(D_0_0)))
  IN  PyMax(PyFloat(D_0_0), PyMin(PyFloat(D_1_0), calibrated_score))

\* the calibration layer: (raw - 0.0) / (0.7 - 0.0), then max(0.0, min(1.0, .))
Calibrate(raw_probability) ==
  LET calibrated_score ==
        Div(Sub(raw_probability, PyFloat(D_0_0)),
            Sub(PyFloat(D_0_7), PyFloat(D_0_0)))
  IN  PyMax(PyFloat(D_0_0), PyMin(PyFloat(D_1_0), calibrated_score))

\* Calibrate on every scalar a classifier of the model returns, computed once.
RawScalars ==
  { [scalar |-> sc, val |-> RawOutcomes[i].val] :
      sc \in {"float", "float64"}, i \in 1..Len(RawOutcomes) }

CalibrateMemo == [r \in RawScalars |-> Calibrate(r)]

threshold == D_0_5

\* Variant of Decision with >= in place of >.
DecisionAtOrAbove(calibrated_score) ==
  IF ~FLt(calibrated_score.val, threshold) THEN "DENY" ELSE "APPROVE"

Decision(calibrated_score) ==
  IF FGt(calibrated_score.val, threshold) THEN "DENY" ELSE "APPROVE"

\* Variant of RiskClass with >= in place of >.
RiskClassAtOrAbove(calibrated_score) ==
  IF ~FLt(calibrated_score.val, threshold) THEN "High Risk" ELSE "Low Risk"

RiskClass(calibrated_score) ==
  IF FGt(calibrated_score.val, threshold) THEN "High Risk" ELSE "Low Risk"

\* Variant of RiskProbability that rounds to six decimals.
RiskProbabilitySixDigits(calibrated_score) == Round(calibrated_score, RoundDigits + 2)

\* risk_probability, in units of 10^-4
RiskProbability(calibrated_score) == Round(calibrated_score, RoundDigits)

\* Variant of JobType whose lookup has no default: .get(application.job)
JobTypeNoDefault(book, application) == DictGet(book["job"], application["job"], "None")

JobType(book, application) == DictGet(book["job"], application["job"], "Unknown")

\* the dict predict_risk returns
Assessment(book, application, calibrated_score) ==
  [decision |-> Decision(calibrated_score),
   risk_probability |-> RiskProbability(calibrated_score),
   risk_class |-> RiskClass(calibrated_score),
   applicant_profile |->
     [job_type |-> JobType(book, application), age |-> application["age"]]]

----------------------------------------------------------------------------
(* The responses *)

Ok(body) == [status |-> 200, kind |-> "ok", body |-> body]

\* FastAPI's answer to a body that fails validation
UnprocessableEntity(errors) ==
  [status |-> 422, kind |-> "validation", detail |-> errors]

\* raise HTTPException(status_code=500, detail="Model not loaded")
ModelNotLoaded ==
  [status |-> 500, kind |-> "http_exception", detail |-> "Model not loaded"]

\* Variant of InternalServerError: the failure answered 200 with the part of
\* the assessment built so far.
PartialAssessment ==
  [status |-> 200, kind |-> "ok", body |-> [decision |-> "ERROR"]]

\* An exception that leaves predict_risk, which has no handler of its own:
\* the application's server-error handler answers 500 "Internal Server Error".
InternalServerError ==
  [status |-> 500, kind |-> "server_error", text |-> "Internal Server Error"]

NoResponse == [status |-> 0, kind |-> "none"]

----------------------------------------------------------------------------
(* The process: the module-level state and the worker threads that serve   *)
(* requests (FastAPI runs a def endpoint in a thread pool, so calls         *)
(* interleave between the lines that read the globals).                    *)

VARIABLES
  started,    \* the module has been imported and the server accepts requests
  artifact,   \* what credit_risk_model.pkl is on disk
  model,      \* the global model
  loads,      \* how many times joblib.load has been called
  code_book,  \* the global CODE_BOOK
  req         \* per worker: the request it serves and the handler's locals

vars == <<started, artifact, model, loads, code_book, req>>

\* a bound of the model: the number of requests in flight at once
NumSlots == 2

Slots == 1..NumSlots

Unbound == [kind |-> "unbound", scalar |-> "", a |-> 0, b |-> 0, n |-> 0]
NoPayload == [f \in Fields |-> Missing]
NoApplication == [f \in Fields |-> 0]
NoScalar == [scalar |-> "none", val |-> D_0_0]

Idle ==
  [route |-> "none", pc |-> "idle", payload |-> NoPayload,
   application |-> NoApplication, raw_probability |-> NoScalar,
   calibrated_score |-> NoScalar, invoked |-> FALSE, response |-> NoResponse]

\* The state once lines 1-48 have run: CODE_BOOK is bound, model is not yet.
InitWith(artifacts) ==
  /\ started = FALSE
  /\ artifact \in artifacts
  /\ model = Unbound
  /\ loads = 0
  /\ code_book = CODE_BOOK
  /\ req = [s \in Slots |-> Idle]

\* lines 50-54, and the server starting once the import is done
LoadModel ==
  /\ ~started
  /\ model' = JoblibLoad(artifact)
  /\ loads' = loads + 1
  /\ started' = TRUE
  /\ UNCHANGED <<artifact, code_book, req>>

\* GET /
GetMappings(s) ==
  /\ started
  /\ req[s].pc = "idle"
  /\ req' = [req EXCEPT ![s] =
       [Idle EXCEPT !.route = "mappings", !.pc = "done",
          !.response = Ok([status |-> "online", reference_codes |-> code_book])]]
  /\ UNCHANGED <<started, artifact, model, loads, code_book>>

\* POST /predict arrives: the body is validated against LoanApplication; with
\* errors the answer is 422 and predict_risk is not called.
Receive(s, payload) ==
  /\ started
  /\ req[s].pc = "idle"
  /\ LET errors == ValidationErrors(payload)
     IN  req' = [req EXCEPT ![s] =
           IF errors # {}
           THEN [Idle EXCEPT !.route = "predict", !.pc = "done",
                   !.payload = payload,
                   !.response = UnprocessableEntity(errors)]
           ELSE [Idle EXCEPT !.route = "predict", !.pc = "check_model",
                   !.payload = payload,
                   !.application = LoanApplication(payload)]]
  /\ UNCHANGED <<started, artifact, model, loads, code_book>>

\* not model
Falsy(m) == m.kind # "classifier"

\* Variant of CheckModel without the guard of lines 66-67.
CheckModelSkipped(s) ==
  /\ req[s].pc = "check_model"
  /\ req' = [req EXCEPT ![s] = [@ EXCEPT !.pc = "predict"]]
  /\ UNCHANGED <<started, artifact, model, loads, code_book>>

\* lines 66-67
CheckModel(s) ==
  /\ req[s].pc = "check_model"
  /\ req' = [req EXCEPT ![s] =
       IF Falsy(model)
       THEN [@ EXCEPT !.pc = "done", !.response = ModelNotLoaded]
       ELSE [@ EXCEPT !.pc = "predict"]]
  /\ UNCHANGED <<started, artifact, model, loads, code_book>>

\* lines 69-72: the classifier is called on the application's features; an
\* exception it raises leaves predict_risk.
Predict(s) ==
  /\ req[s].pc = "predict"
  /\ LET outcome == PredictProba(model, req[s].application)
     IN  req' = [req EXCEPT ![s] =
           IF Falsy(model)
           THEN \* None has no predict_proba: AttributeError
                [@ EXCEPT !.pc = "done", !.response = InternalServerError]
           ELSE IF outcome.kind = "raise"
           THEN [@ EXCEPT !.pc = "done", !.invoked = TRUE,
                   !.response = InternalServerError]
           ELSE [@ EXCEPT !.pc = "respond", !.invoked = TRUE,
                   !.raw_probability =
                     [scalar |-> model.scalar, val |-> outcome.val]]]
  /\ UNCHANGED <<started, artifact, model, loads, code_book>>

\* Variant of Respond whose label lookup is CODE_BOOK["job"].setdefault(job,
\* "Unknown"), which writes an unknown code into the global.
RespondSetDefault(s) ==
  /\ req[s].pc = "respond"
  /\ LET calibrated_score == CalibrateMemo[req[s].raw_probability]
     IN  req' = [req EXCEPT ![s] =
           [@ EXCEPT !.pc = "done", !.calibrated_score = calibrated_score,
              !.response =
                Ok(Assessment(code_book, req[s].application, calibrated_score))]]
  /\ code_book' = [code_book EXCEPT !["job"] =
                     @ @@ (req[s].application["job"] :> "Unknown")]
  /\ UNCHANGED <<started, artifact, model, loads>>

\* lines 74-96
Respond(s) ==
  /\ req[s].pc = "respond"
  /\ LET calibrated_score == CalibrateMemo[req[s].raw_probability]
     IN  req' = [req EXCEPT ![s] =
           [@ EXCEPT !.pc = "done", !.calibrated_score = calibrated_score,
              !.response =
                Ok(Assessment(code_book, req[s].application, calibrated_score))]]
  /\ UNCHANGED <<started, artifact, model, loads, code_book>>

\* The response has been sent; the worker is free again.
Close(s) ==
  /\ req[s].pc = "done"
  /\ req' = [req EXCEPT ![s] = Idle]
  /\ UNCHANGED <<started, artifact, model, loads, code_book>>

----------------------------------------------------------------------------
(* The payloads and artifacts of the specifications *)

\* scenario 1 of the specification
BasePayload ==
  [duration |-> JNum(24), credit_amount |-> JNum(5000), age |-> JNum(30),
   job |-> JNum(1), checking_status |-> JNum(0), savings_status |-> JNum(0),
   purpose |-> JNum(5)]

JobCodes == {0, 1, 2, 3, 99, -1}

ServicePayloads ==
  { [BasePayload EXCEPT !["job"] = JNum(j)] : j \in JobCodes }
    \cup { [BasePayload EXCEPT !["job"] = JNumStr(2)],
           [BasePayload EXCEPT !["age"] = Missing],
           [BasePayload EXCEPT !["job"] = JStr],
           [BasePayload EXCEPT !["age"] = Missing, !["job"] = JNull],
           NoPayload }

\* the classifiers over the first four outcomes that ignore the features
\* (a = 0) or tell the job codes apart (a = 1)
ServiceArtifacts ==
  {Absent, Corrupt}
    \cup { Classifier("float64", a, b, 4) : a \in {0, 1}, b \in 0..3 }

\* The service: NumSlots workers, valid and invalid payloads, the artifact
\* absent, corrupt or one of the classifiers over four outcomes.
Init == InitWith(ServiceArtifacts)

Next ==
  \/ LoadModel
  \/ \E s \in Slots :
       \/ GetMappings(s)
       \/ \E payload \in ServicePayloads : Receive(s, payload)
       \/ CheckModel(s)
       \/ Predict(s)
       \/ Respond(s)
       \/ Close(s)

Spec == Init /\ [][Next]_vars

\* The calibration layer on every outcome: NumSlots workers, two valid
\* payloads, and every classifier of the family over all of RawOutcomes, so
\* that each pair of raw probabilities is returned to two requests in flight.
CalibrationPayloads ==
  { [BasePayload EXCEPT !["job"] = JNum(j)] : j \in {0, 1} }

InitCalibration == InitWith(Classifiers(Len(RawOutcomes)))

NextCalibration ==
  \/ LoadModel
  \/ \E s \in Slots :
       \/ GetMappings(s)
       \/ \E payload \in CalibrationPayloads : Receive(s, payload)
       \/ CheckModel(s)
       \/ Predict(s)
       \/ Respond(s)
       \/ Close(s)

SpecCalibration == InitCalibration /\ [][NextCalibration]_vars

\* Validation on every payload: one worker, each field missing, null, a string
\* or the number of BasePayload, and the artifact absent or a classifier.
ValidationPayloads ==
  { [f \in Fields |->
       IF c[f] = "number" THEN BasePayload[f]
       ELSE IF c[f] = "missing" THEN Missing
       ELSE IF c[f] = "null" THEN JNull
       ELSE JStr] :
    c \in [Fields -> {"number", "missing", "null", "string"}] }

InitValidation == InitWith({Absent, Classifier("float64", 0, 0, 4)})

NextValidation ==
  \/ LoadModel
  \/ GetMappings(1)
  \/ req[1].pc = "idle" /\ \E payload \in ValidationPayloads : Receive(1, payload)
  \/ CheckModel(1)
  \/ Predict(1)
  \/ Respond(1)
  \/ Close(1)

SpecValidation == InitValidation /\ [][NextValidation]_vars

----------------------------------------------------------------------------
(* The claims *)

\* worker s holds the answer to a POST /predict
Answered(s) == req[s].route = "predict" /\ req[s].pc = "done"

\* worker s holds a RiskAssessment
Assessed(s) == Answered(s) /\ req[s].response.kind = "ok"

\* the raw probabilities 0.21, 0.6, 0.35 and its two neighbours, 0.7, -0.1, 0.9
Raw_0_21 == RawOutcomes[1].val
Raw_0_6 == RawOutcomes[2].val
Raw_0_35 == RawOutcomes[4].val
Raw_0_35_next == RawOutcomes[5].val
Raw_0_35_prev == RawOutcomes[6].val
Raw_0_7 == RawOutcomes[7].val

\* C1: in every RiskAssessment returned, decision and risk_class agree: DENY
\* exactly with "High Risk", APPROVE exactly with "Low Risk".
C1_DecisionAgreesWithRiskClass ==
  \A s \in Slots :
    Assessed(s) =>
      LET body == req[s].response.body
      IN  /\ body.decision \in {"DENY", "APPROVE"}
          /\ body.risk_class \in {"High Risk", "Low Risk"}
          /\ body.decision = "DENY" <=> body.risk_class = "High Risk"
          /\ body.decision = "APPROVE" <=> body.risk_class = "Low Risk"

\* a DENY / High Risk answer beside an APPROVE / Low Risk answer whose score is
\* exactly the threshold
C1_Witness ==
  \E s, t \in Slots :
    /\ Assessed(s) /\ req[s].response.body.decision = "DENY"
    /\ req[s].response.body.risk_class = "High Risk"
    /\ Assessed(t) /\ req[t].response.body.decision = "APPROVE"
    /\ req[t].response.body.risk_class = "Low Risk"
    /\ req[t].calibrated_score.val = D_0_5

\* C2: the answer is DENY / High Risk exactly when the calibrated score is
\* strictly above 0.5, which is exactly when the raw probability is above 0.35;
\* a raw probability of 0.35 gives the score 0.5 exactly and APPROVE / Low Risk.
C2_StrictThreshold ==
  \A s \in Slots :
    Assessed(s) =>
      LET body  == req[s].response.body
          raw   == req[s].raw_probability.val
          score == req[s].calibrated_score.val
          deny  == body.decision = "DENY" /\ body.risk_class = "High Risk"
          appr  == body.decision = "APPROVE" /\ body.risk_class = "Low Risk"
      IN  /\ deny <=> FGt(score, D_0_5)
          /\ appr <=> ~FGt(score, D_0_5)
          /\ deny <=> FGt(raw, Raw_0_35)
          /\ raw = Raw_0_35 => score = D_0_5 /\ appr

\* the raw probability 0.35 answered APPROVE beside the next double above it
\* answered DENY
C2_Witness ==
  \E s, t \in Slots :
    /\ Assessed(s) /\ req[s].raw_probability.val = Raw_0_35
    /\ req[s].response.body.decision = "APPROVE"
    /\ Assessed(t) /\ req[t].raw_probability.val = Raw_0_35_next
    /\ req[t].response.body.decision = "DENY"

\* Raw probabilities with a short decimal expansion, in millionths, whose
\* quotient by 0.7 is not halfway between two multiples of 10^-4.
Millionths ==
  { <<RawOutcomes[1].val, 210000>>, <<RawOutcomes[2].val, 600000>>,
    <<RawOutcomes[4].val, 350000>>, <<RawOutcomes[7].val, 700000>>,
    <<RawOutcomes[13].val, 900000>>, <<RawOutcomes[14].val, 1000000>>,
    <<RawOutcomes[15].val, 100000>>, <<RawOutcomes[16].val, 1>>,
    <<RawOutcomes[20].val, 350040>> }

\* d millionths over 0.7, clipped to [0, 1] and rounded to a multiple of 10^-4,
\* in decimal arithmetic
DecimalScore(d) ==
  LET k == (d + 35) \div 70 IN IF k > 10000 THEN 10000 ELSE k

\* C3: the calibrated score is raw / 0.7 clipped to [0, 1]: it lies in [0, 1],
\* is exactly 0.0 for raw = 0.0 and for every raw < 0.0, exactly 1.0 for
\* raw = 0.7 and for every raw > 0.7, is unclipped in between, and agrees, to
\* the four decimals reported, with the quotient in decimal arithmetic (0.21
\* gives 0.3 and APPROVE, 0.6 gives 0.8571 and DENY).
C3_CalibratedScore ==
  \A s \in Slots :
    Assessed(s) =>
      LET body  == req[s].response.body
          raw   == req[s].raw_probability.val
          score == req[s].calibrated_score.val
      IN  /\ ~FLt(score, D_0_0) /\ ~FGt(score, D_1_0)
          /\ FEq(raw, D_0_0) \/ FLt(raw, D_0_0) => score = D_0_0
          /\ FEq(raw, Raw_0_7) \/ FGt(raw, Raw_0_7) => score = D_1_0
          /\ FGt(raw, D_0_0) /\ FLt(raw, Raw_0_7) =>
               FGt(score, D_0_0) /\ FLt(score, D_1_0)
          /\ \A m \in Millionths :
               raw = m[1] => body.risk_probability = DecimalScore(m[2])
          /\ raw = Raw_0_21 =>
               body.risk_probability = 3000 /\ body.decision = "APPROVE"
          /\ raw = Raw_0_6 =>
               body.risk_probability = 8571 /\ body.decision = "DENY"

\* 0.21 answered with 0.3 beside a raw probability above 0.7 clipped to 1.0
C3_Witness ==
  \E s, t \in Slots :
    /\ Assessed(s) /\ req[s].raw_probability.val = Raw_0_21
    /\ req[s].response.body.risk_probability = 3000
    /\ Assessed(t) /\ FGt(req[t].raw_probability.val, Raw_0_7)
    /\ req[t].calibrated_score.val = D_1_0

\* C4 as stated: with the artifact absent or unloadable, every answer to a
\* scoring request is "Model not loaded".
C4_EveryCallModelUnavailable ==
  \A s \in Slots :
    started /\ artifact.kind # "classifier" /\ Answered(s) =>
      req[s].response = ModelNotLoaded

\* C4, amended: with the artifact absent or unloadable the process starts with
\* model = None and keeps it; every scoring request whose payload passes
\* validation is answered "Model not loaded", one whose payload does not is
\* answered with the validation error; the classifier is never invoked and no
\* RiskAssessment is returned.
C4_ModelUnavailable ==
  started /\ artifact.kind # "classifier" =>
    /\ model = None
    /\ \A s \in Slots :
         /\ ~req[s].invoked
         /\ req[s].pc \notin {"predict", "respond"}
         /\ Answered(s) =>
              /\ req[s].response.kind # "ok"
              /\ ValidationErrors(req[s].payload) = {} =>
                   req[s].response = ModelNotLoaded
              /\ ValidationErrors(req[s].payload) # {} =>
                   req[s].response.kind = "validation"

\* without an artifact, a valid request answered "Model not loaded" beside
\* another being served
C4_Witness ==
  \E s, t \in Slots :
    /\ started /\ artifact = Absent
    /\ Answered(s) /\ req[s].response = ModelNotLoaded
    /\ req[s].payload = BasePayload
    /\ s # t /\ req[t].pc = "check_model"

\* the fields of a payload that are missing or hold what is no number
Offending(payload) ==
  { f \in Fields : payload[f].t \in {"missing", "null", "string"} }

C7_Monotone ==
  \A s, t \in Slots :
    Assessed(s) /\ Assessed(t)
      /\ ~FGt(req[s].raw_probability.val, req[t].raw_probability.val) =>
        /\ ~FGt(req[s].calibrated_score.val, req[t].calibrated_score.val)
        /\ ~( /\ req[s].response.body.decision = "DENY"
              /\ req[t].response.body.decision = "APPROVE" )
        /\ req[s].response.body.risk_probability
             <= req[t].response.body.risk_probability

\* two assessments with raw probabilities strictly ordered inside (0, 0.7) and
\* scores strictly ordered
C7_Witness ==
  \E s, t \in Slots :
    /\ Assessed(s) /\ Assessed(t)
    /\ FGt(req[s].raw_probability.val, D_0_0)
    /\ FLt(req[s].raw_probability.val, req[t].raw_probability.val)
    /\ FLt(req[t].raw_probability.val, Raw_0_7)
    /\ FLt(req[s].calibrated_score.val, req[t].calibrated_score.val)

\* C8: in every RiskAssessment job_type is the label of the job code for the
\* codes 0 to 3 and "Unknown" for every other code; a request with such a code
\* is served like any other: decision, risk_class and risk_probability are
\* those of any assessment with the same raw probability.
C8_JobLabel ==
  /\ \A s \in Slots :
       Assessed(s) =>
         LET job   == req[s].payload["job"].v
             label == req[s].response.body.applicant_profile.job_type
         IN  /\ job = 0 => label = "High Qualification / Management"
             /\ job = 1 => label = "Skilled Employee"
             /\ job = 2 => label = "Unemployed / Unskilled (Non-resident)"
             /\ job = 3 => label = "Unskilled (Resident)"
             /\ job \notin {0, 1, 2, 3} => label = "Unknown"
  /\ \A s \in Slots :
       /\ req[s].route = "predict"
       /\ ValidationErrors(req[s].payload) = {}
       /\ req[s].pc = "done"
       /\ model.kind = "classifier"
       /\ PredictProba(model, req[s].application).kind = "proba"
       => Assessed(s)
  /\ \A s, t \in Slots :
       Assessed(s) /\ Assessed(t)
         /\ req[s].raw_probability = req[t].raw_probability =>
           /\ req[s].response.body.decision = req[t].response.body.decision
           /\ req[s].response.body.risk_class = req[t].response.body.risk_class
           /\ req[s].response.body.risk_probability
                = req[t].response.body.risk_probability

\* job 99 assessed with the label "Unknown" beside job 1 with its label, on the
\* same raw probability
C8_Witness ==
  \E s, t \in Slots :
    /\ Assessed(s) /\ req[s].payload["job"] = JNum(99)
    /\ req[s].response.body.applicant_profile.job_type = "Unknown"
    /\ Assessed(t) /\ req[t].payload["job"] = JNum(1)
    /\ req[t].response.body.applicant_profile.job_type = "Skilled Employee"
    /\ req[s].raw_probability = req[t].raw_probability
    /\ req[s].response.body.decision = req[t].response.body.decision

\* The answer to a payload served alone, once the model is m.
AloneResponse(payload, m) ==
  IF ValidationErrors(payload) # {} THEN UnprocessableEntity(ValidationErrors(payload))
  ELSE IF m = None THEN ModelNotLoaded
  ELSE LET application == LoanApplication(payload)
           outcome     == PredictProba(m, application)
       IN  IF outcome.kind = "raise" THEN InternalServerError
           ELSE Ok(Assessment(CODE_BOOK, application,
                     CalibrateMemo[[scalar |-> m.scalar, val |-> outcome.val]]))

\* Of the values st, ld, m, cb and rq of started, loads, model, code_book and
\* req: the model has been loaded at most once, and exactly once if the server
\* has started; the globals are what startup made them; and every answer held
\* by a worker is the one its request gets when served alone.
Isolated(st, ld, m, cb, rq) ==
  /\ ld <= 1
  /\ st <=> ld = 1
  /\ st => m = JoblibLoad(artifact) /\ cb = CODE_BOOK
  /\ \A s \in Slots :
       /\ rq[s].pc # "idle" => st
       /\ rq[s].route = "predict" /\ rq[s].pc = "done" =>
            rq[s].response = AloneResponse(rq[s].payload, m)
       /\ rq[s].route = "mappings" =>
            rq[s].response = Ok([status |-> "online", reference_codes |-> CODE_BOOK])

\* C9: the model is loaded exactly once, before any request is served; from
\* then on no step of predict_risk or get_mappings changes the model or the
\* CODE_BOOK; and every answer is the one its request gets when served alone,
\* whatever the other workers do.
C9_NoSharedMutation ==
  /\ Isolated(started, loads, model, code_book, req)
  /\ [][/\ Isolated(started', loads', model', code_book', req')
        /\ \A s \in Slots : req'[s].pc # "idle" => started
        /\ started => /\ model' = model
                      /\ code_book' = code_book
                      /\ loads' = loads
                      /\ started']_vars

\* an assessment held by one worker while another is between the model check
\* and the classifier call
C9_Witness ==
  \E s, t \in Slots :
    /\ s # t
    /\ Assessed(s)
    /\ req[t].pc = "predict"
    /\ req[t].payload # req[s].payload

\* C10: the reported risk_probability, the score rounded to four decimals,
\* lies in [0, 1] and never on the other side of 0.5 from the decision: at least
\* 0.5 with DENY, at most 0.5 with APPROVE.
C10_RoundedProbability ==
  \A s \in Slots :
    Assessed(s) =>
      LET body == req[s].response.body
      IN  /\ body.risk_probability \in 0..10000
          /\ body.decision = "DENY" => body.risk_probability >= 5000
          /\ body.decision = "APPROVE" => body.risk_probability <= 5000
          /\ body.risk_probability > 5000 => body.decision = "DENY"
          /\ body.risk_probability < 5000 => body.decision = "APPROVE"

\* a reported 0.5 with DENY beside a reported 0.5 with APPROVE
C10_Witness ==
  \E s, t \in Slots :
    /\ Assessed(s) /\ req[s].response.body.risk_probability = 5000
    /\ req[s].response.body.decision = "DENY"
    /\ Assessed(t) /\ req[t].response.body.risk_probability = 5000
    /\ req[t].response.body.decision = "APPROVE"

====
